---- MODULE Spec2Model ----
(***************************************************************************)
(* Model of costos_lote.py: the Streamlit script that edits a batch cost   *)
(* model (nine parameters, three tables), computes the cost breakdown and  *)
(* saves / restores the model through a CSV snapshot whose table cells     *)
(* carry a nested JSON payload.                                            *)
(*                                                                         *)
(* Numbers.  A Python number is modelled by its exact decimal value        *)
(* m * 10^-e (int and float are not told apart: 25 and 25.0 are the same   *)
(* value).  The arithmetic of the "Calculos" section is carried out on     *)
(* exact rationals <<n, d>>, i.e. floating-point rounding of the products  *)
(* and sums is abstracted away.                                            *)
(*                                                                         *)
(* Text.  A Python str is a tagged record: "str" for text that does not    *)
(* spell a number, "numstr" for text whose characters spell the number     *)
(* m * 10^-e (the "7" of a description, the "20.0" of a CSV cell), "json"  *)
(* for text that is a JSON array of row objects.  NaN is [t |-> "nan"].    *)
(*                                                                         *)
(* Column names are written without the characters TLA+ identifiers lack:  *)
(* Descripcion = "Descripción", Costo_unitario = "Costo unitario (ARS $)". *)
(***************************************************************************)
EXTENDS Integers, Sequences, FiniteSets, TLC

VARIABLES
    file_up,        \* the sidebar uploader's file: NoFile, BadCsv or CSV rows
    sidebar,        \* the sidebar message: "none", "success" or "error"
    loaded_params,  \* dict Field -> Value of the PARAM records read
    loaded_tables,  \* dict Section -> DataFrame of the other records read
    initial,        \* the values the script hands to the widgets as their
                    \* initial value (lot_title_default, p(..), tables.get(..))
    out_params,     \* the nine widget values, keyed as out_params keys them
    ing_df,         \* the three data_editor tables
    pack_df,
    aux_df,
    metrics,        \* the results of the "Calculos" section
    csv_df,         \* the snapshot DataFrame behind the download button
    exc             \* the exception that ended the script run, or "none"

vars == <<file_up, sidebar, loaded_params, loaded_tables, initial,
          out_params, ing_df, pack_df, aux_df, metrics, csv_df, exc>>

----------------------------------------------------------------------------
(* Exact arithmetic *)

RECURSIVE Pow10(_)
Pow10(k) == IF k = 0 THEN 1 ELSE 10 * Pow10(k - 1)

Abs(n) == IF n < 0 THEN -n ELSE n

RECURSIVE Gcd(_, _)
Gcd(a, b) == IF b = 0 THEN a ELSE Gcd(b, a % b)

\* the rational n/d in lowest terms, d > 0
Reduced(n, d, g) ==
    IF d < 0 THEN <<(-n) \div g, (-d) \div g>> ELSE <<n \div g, d \div g>>
Rat(n, d) == Reduced(n, d, Gcd(Abs(n), Abs(d)))

RZero == <<0, 1>>
RInt(n) == <<n, 1>>
RAdd(a, b) == Rat(a[1] * b[2] + b[1] * a[2], a[2] * b[2])
RSub(a, b) == Rat(a[1] * b[2] - b[1] * a[2], a[2] * b[2])
Product(x, y) == <<x[1] * y[1], x[2] * y[2]>>
RMul(a, b) == Product(Rat(a[1], b[2]), Rat(b[1], a[2]))

\* a / b; the quotient by zero is the marker of Python's ZeroDivisionError
ZeroDivision == <<0, 0>>
RDiv(a, b) ==
    IF b[1] = 0 \/ a = ZeroDivision \/ b = ZeroDivision THEN ZeroDivision
    ELSE RMul(a, Rat(b[2], b[1]))

----------------------------------------------------------------------------
(* Python values *)

\* the number m * 10^-e, trailing zeros of the fraction dropped
RECURSIVE Num(_, _)
Num(m, e) ==
    IF e > 0 /\ m % 10 = 0 THEN Num(m \div 10, e - 1)
    ELSE [t |-> "num", m |-> m, e |-> e]

Str(s) == [t |-> "str", s |-> s]
NumStr(m, e) == [t |-> "numstr", m |-> Num(m, e).m, e |-> Num(m, e).e]
NaN == [t |-> "nan"]

\* the rational value of a number
ToRat(x) == Rat(x.m, Pow10(x.e))

\* str(v) of a number: the text that spells it
str(v) == IF v.t = "num" THEN NumStr(v.m, v.e) ELSE v

\* float(v): a number stays, text that spells a number gives it, NaN stays NaN;
\* other text raises ValueError (no such text is enumerated for a numeric key)
float(v) == IF v.t = "numstr" THEN Num(v.m, v.e) ELSE v

\* int(x) of a number: truncation toward zero
int(x) ==
    IF x.m >= 0 THEN Num(x.m \div Pow10(x.e), 0)
    ELSE Num(-((-x.m) \div Pow10(x.e)), 0)

\* dict.get(k, d) and d[k] = v on dicts modelled as functions
Get(d, k, default) == IF k \in DOMAIN d THEN d[k] ELSE default
Put(d, k, v) == [x \in (DOMAIN d) \cup {k} |-> IF x = k THEN v ELSE d[x]]
EmptyDict == <<>>

----------------------------------------------------------------------------
(* Preset (20 L) *)

UNITS == {"kg", "g", "L", "ml"}

IngColumns == {"Descripcion", "Cantidad", "Unidad", "Costo_unitario"}
PackColumns == {"Descripcion", "Unidades", "Costo_unitario"}

\* a DataFrame: its column names and its rows, each a record keyed by column
DataFrame(cols, rows) == [columns |-> cols, rows |-> rows]

LineItem(d, q, u, c) ==
    [Descripcion |-> d, Cantidad |-> q, Unidad |-> Str(u), Costo_unitario |-> c]
PackagingItem(d, n, c) ==
    [Descripcion |-> d, Unidades |-> n, Costo_unitario |-> c]

BlankRow == LineItem(Str(""), Num(0, 0), "kg", Num(0, 0))

default_ingredients ==
    DataFrame(IngColumns,
      << LineItem(Str("Agua"),           Num(25, 0), "L",  Num(2, 0)),
         LineItem(Str("Malta Pilsen"),   Num(45, 1), "kg", Num(550, 0)),
         LineItem(Str("Malta caramelo"), Num(3, 1),  "kg", Num(820, 0)),
         LineItem(Str("Lupulo"),         Num(5, 2),  "kg", Num(16000, 0)),
         LineItem(Str("Levadura ale"),   Num(11, 3), "kg", Num(12500, 0)),
         BlankRow, BlankRow, BlankRow, BlankRow, BlankRow >>)

\* mutation of default_packaging: another unit cost for the caps
default_packaging_other_price ==
    DataFrame(PackColumns,
      << PackagingItem(Str("Botella 330 ml"), Num(61, 0), Num(80, 0)),
         PackagingItem(Str("Chapa"),          Num(61, 0), Num(16, 0)),
         PackagingItem(Str("Etiqueta"),       Num(61, 0), Num(20, 0)),
         PackagingItem(Str("Carton 6 pack"),  Num(11, 0), Num(300, 0)) >>)

default_packaging ==
    DataFrame(PackColumns,
      << PackagingItem(Str("Botella 330 ml"), Num(61, 0), Num(80, 0)),
         PackagingItem(Str("Chapa"),          Num(61, 0), Num(15, 0)),
         PackagingItem(Str("Etiqueta"),       Num(61, 0), Num(20, 0)),
         PackagingItem(Str("Carton 6 pack"),  Num(11, 0), Num(300, 0)) >>)

default_aux ==
    DataFrame(IngColumns,
      << LineItem(Str("CO2"),        Num(6, 1), "kg", Num(700, 0)),
         LineItem(Str("Irish moss"), Num(5, 0), "g",  Num(80, 0)) >>)

----------------------------------------------------------------------------
(* CSV helpers *)

\* pandas' to_json default: floats are written with at most 10 decimals
DoublePrecision == 10

\* m / k rounded to the nearest integer (m >= 0; ties are not enumerated)
RoundDiv(m, k) == (m + k \div 2) \div k

\* a cell as to_json writes it: a number rounded to DoublePrecision decimals,
\* text as a JSON string of the same characters
json_cell(x) ==
    IF x.t = "num" /\ x.e > DoublePrecision
    THEN Num(RoundDiv(x.m, Pow10(x.e - DoublePrecision)), DoublePrecision)
    ELSE x

\* DataFrame.to_json(orient="records"): a JSON array with one object per
\* row, keyed by column name; a frame without rows gives "[]"
to_json(df) ==
    [t |-> "json",
     doc |-> [i \in 1..Len(df.rows) |->
                [c \in df.columns |-> json_cell(df.rows[i][c])]]]

\* pd.read_json(io.StringIO(v), orient="records") raises for NaN (StringIO
\* takes no float) and for text that is not a JSON array of row objects
read_json_raises(v) == v.t # "json"

\* pd.read_json(.., orient="records"): the columns are the objects' keys (none
\* for "[]"); a column whose strings all spell numbers is converted to numbers
read_json(v) ==
    LET doc == v.doc
        cols == IF Len(doc) = 0 THEN {} ELSE DOMAIN doc[1]
        numeric(c) == \A i \in 1..Len(doc) : doc[i][c].t \in {"num", "numstr"}
    IN  DataFrame(cols,
          [i \in 1..Len(doc) |->
             [c \in cols |-> IF numeric(c) THEN float(doc[i][c])
                                            ELSE doc[i][c]]])

\* the keys of out_params, in the order the dict literal lists them
ParamKeys ==
    << "Titulo_lote", "Volumen_L", "Bottle_ml", "Merma_pct", "Energia",
       "Horas", "Costo_hora", "Flete", "Overhead_pct" >>

TableNames == {"Ingredientes", "Packaging", "Auxiliares"}

Record(s, f, v) == [Section |-> s, Field |-> f, Value |-> v]

\* mutation of build_save_df: one record per table row instead of one per table
RowRecords(section, df) ==
    [i \in 1..Len(df.rows) |->
        Record(section, "Data", to_json(DataFrame(df.columns, <<df.rows[i]>>)))]
build_save_df_per_row(params, ing, pack, aux) ==
    [i \in 1..Len(ParamKeys) |->
        Record("PARAM", ParamKeys[i], params[ParamKeys[i]])]
    \o RowRecords("Ingredientes", ing) \o RowRecords("Packaging", pack)
    \o RowRecords("Auxiliares", aux)

build_save_df(params, ing, pack, aux) ==
    [i \in 1..Len(ParamKeys) |->
        Record("PARAM", ParamKeys[i], params[ParamKeys[i]])]
    \o << Record("Ingredientes", "Data", to_json(ing)),
          Record("Packaging",    "Data", to_json(pack)),
          Record("Auxiliares",   "Data", to_json(aux)) >>

\* the loop of load_save_df from row i on; read_json raising ends the call
RECURSIVE load_rows(_, _, _, _)
load_rows(df, i, params, tables) ==
    IF i > Len(df) THEN [raised |-> FALSE, params |-> params, tables |-> tables]
    ELSE IF df[i].Section = "PARAM"
    THEN load_rows(df, i + 1, Put(params, df[i].Field, df[i].Value), tables)
    ELSE IF read_json_raises(df[i].Value)
    THEN [raised |-> TRUE, params |-> EmptyDict, tables |-> EmptyDict]
    ELSE load_rows(df, i + 1, params,
                   Put(tables, df[i].Section, read_json(df[i].Value)))

\* mutation of load_save_df: a record that does not parse is skipped and the
\* rest of the file is applied
RECURSIVE load_rows_lenient(_, _, _, _)
load_rows_lenient(df, i, params, tables) ==
    IF i > Len(df) THEN [raised |-> FALSE, params |-> params, tables |-> tables]
    ELSE IF df[i].Section = "PARAM"
    THEN load_rows_lenient(df, i + 1,
                           Put(params, df[i].Field, df[i].Value), tables)
    ELSE IF read_json_raises(df[i].Value)
    THEN load_rows_lenient(df, i + 1, params, tables)
    ELSE load_rows_lenient(df, i + 1, params,
                           Put(tables, df[i].Section, read_json(df[i].Value)))
load_save_df_lenient(df) == load_rows_lenient(df, 1, EmptyDict, EmptyDict)

\* mutation of load_save_df: only the three known sections are dispatched
load_save_df_known_sections(df) ==
    load_rows(SelectSeq(df, LAMBDA r : r.Section \in
                              {"PARAM", "Ingredientes", "Packaging",
                               "Auxiliares"}),
              1, EmptyDict, EmptyDict)

load_save_df(df) == load_rows(df, 1, EmptyDict, EmptyDict)

\* the uploader's file: none, bytes pd.read_csv cannot parse, or CSV rows
NoFile == [kind |-> "none"]
BadCsv == [kind |-> "bad"]
CsvFile(rows) == [kind |-> "csv", rows |-> rows]

\* csv_df.to_csv(buffer, index=False): every Value written as its text
to_csv(df) ==
    CsvFile([i \in 1..Len(df) |->
               Record(df[i].Section, df[i].Field, str(df[i].Value))])

\* pd.read_csv: an empty cell is read as NaN, any other cell as its text
read_csv(file) ==
    [i \in 1..Len(file.rows) |->
        Record(file.rows[i].Section, file.rows[i].Field,
               IF file.rows[i].Value = Str("") THEN NaN
               ELSE file.rows[i].Value)]

----------------------------------------------------------------------------
(* Sidebar upload *)

\* lines 103-110: both dicts start empty on every run; they are assigned only
\* when read_csv and load_save_df both return, and any exception is reported
\* in the sidebar and leaves them empty
Loaded(got, failed) ==
    IF got.raised THEN failed
    ELSE [sidebar |-> "success",
          loaded_params |-> got.params, loaded_tables |-> got.tables]

SidebarUpload(file) ==
    LET failed == [sidebar |-> "error",
                   loaded_params |-> EmptyDict, loaded_tables |-> EmptyDict]
    IN  IF file = NoFile
        THEN [sidebar |-> "none",
              loaded_params |-> EmptyDict, loaded_tables |-> EmptyDict]
        ELSE IF file = BadCsv THEN failed
        ELSE Loaded(load_save_df(read_csv(file)), failed)

----------------------------------------------------------------------------
(* Encabezado, tablas y parametros: the initial values of the widgets *)

\* st.text_input casts its initial value to str
text_input(value) == IF value.t = "nan" THEN Str("nan") ELSE str(value)

p(params, name, default) == float(Get(params, name, default))

\* the initial value of each of the nine parameter widgets, keyed as
\* out_params keys the widgets' values
InitialParams(params) ==
    [Titulo_lote  |-> text_input(Get(params, "Titulo_lote", Str("Lote 20 L"))),
     Volumen_L    |-> p(params, "Volumen_L", Num(20, 0)),
     Bottle_ml    |-> int(p(params, "Bottle_ml", Num(330, 0))),
     Merma_pct    |-> p(params, "Merma_pct", Num(8, 0)),
     Energia      |-> p(params, "Energia", Num(300, 0)),
     Horas        |-> p(params, "Horas", Num(6, 0)),
     Costo_hora   |-> p(params, "Costo_hora", Num(4000, 0)),
     Flete        |-> p(params, "Flete", Num(1000, 0)),
     Overhead_pct |-> p(params, "Overhead_pct", Num(10, 0))]

\* mutation of InitialTable: an absent section gives an empty table
InitialTable_empty_fallback(tables, name) ==
    Get(tables, name, DataFrame({}, <<>>))

\* the initial value of each data_editor
InitialTable(tables, name) ==
    Get(tables, name,
        CASE name = "Ingredientes" -> default_ingredients
          [] name = "Packaging"    -> default_packaging
          [] name = "Auxiliares"   -> default_aux)

Reconstruct(params, tables) ==
    [params       |-> InitialParams(params),
     Ingredientes |-> InitialTable(tables, "Ingredientes"),
     Packaging    |-> InitialTable(tables, "Packaging"),
     Auxiliares   |-> InitialTable(tables, "Auxiliares")]

----------------------------------------------------------------------------
(* Calculos *)

RECURSIVE SumProducts(_, _, _, _)
SumProducts(rows, a, b, i) ==
    IF i > Len(rows) THEN RZero
    ELSE RAdd(RMul(ToRat(rows[i][a]), ToRat(rows[i][b])),
              SumProducts(rows, a, b, i + 1))

\* (df[a] * df[b]).sum(); 0 for a frame without rows
column_product_sum(df, a, b) == SumProducts(df.rows, a, b, 1)

lab_cost(lab_hours, lab_rate) == RMul(lab_hours, lab_rate)

\* mutation of total_var: the freight is left out of the variable cost
total_var_without_flete(ing_cost, pack_cost, aux_cost, energy_cost, labor, flete) ==
    RAdd(RAdd(RAdd(RAdd(ing_cost, pack_cost), aux_cost), energy_cost), labor)

total_var(ing_cost, pack_cost, aux_cost, energy_cost, labor, flete) ==
    RAdd(RAdd(RAdd(RAdd(RAdd(ing_cost, pack_cost), aux_cost), energy_cost),
              labor), flete)

ind_cost(variable, ind_pct) == RDiv(RMul(variable, ind_pct), RInt(100))

total_lot(variable, indirect) == RAdd(variable, indirect)

\* mutation of var_no_pack: the packaging cost is not taken out
var_no_pack_keeps_packaging(variable, pack_cost) == variable

var_no_pack(variable, pack_cost) == RSub(variable, pack_cost)

ind_no_pack(variable_np, ind_pct) ==
    RDiv(RMul(variable_np, ind_pct), RInt(100))

prod_cost_no_pack(variable_np, indirect_np) == RAdd(variable_np, indirect_np)

real_volL(vol_batch, loss_pct) ==
    RMul(vol_batch, RSub(RInt(1), RDiv(loss_pct, RInt(100))))

\* mutation of real_bott: the division without its zero guard
real_bott_unguarded(volL, bottle_ml) ==
    RDiv(RMul(volL, RInt(1000)), bottle_ml)

\* "x if y else 0": a zero y is false
real_bott(volL, bottle_ml) ==
    IF bottle_ml # RZero THEN RDiv(RMul(volL, RInt(1000)), bottle_ml) ELSE RZero

cost_bot(lot, bott) == IF bott # RZero THEN RDiv(lot, bott) ELSE RZero

cost_L(prod_np, volL) == IF volL # RZero THEN RDiv(prod_np, volL) ELSE RZero

\* df[col] raises KeyError when the frame has no such column
MissingColumn(ing, pack, aux) ==
    \/ ~({"Cantidad", "Costo_unitario"} \subseteq ing.columns)
    \/ ~({"Unidades", "Costo_unitario"} \subseteq pack.columns)
    \/ ~({"Cantidad", "Costo_unitario"} \subseteq aux.columns)

NoMetrics == [computed |-> FALSE]

\* lines 202-227, on the widgets' values.  Each intermediate value is bound
\* once, as the script binds it to a name, and handed on to the lines below.
Yields(costs, pnp, volL, bott) ==
    [computed |-> TRUE,
     ing_cost |-> costs.ing_cost, pack_cost |-> costs.pack_cost,
     aux_cost |-> costs.aux_cost, lab_cost |-> costs.lab_cost,
     total_var |-> costs.total_var, ind_cost |-> costs.ind_cost,
     total_lot |-> costs.total_lot, var_no_pack |-> costs.var_no_pack,
     ind_no_pack |-> costs.ind_no_pack, prod_cost_no_pack |-> pnp,
     real_volL |-> volL, real_bott |-> bott,
     cost_bot |-> cost_bot(costs.total_lot, bott),
     cost_L |-> cost_L(pnp, volL)]

Rendimientos(params, costs, volL) ==
    Yields(costs, prod_cost_no_pack(costs.var_no_pack, costs.ind_no_pack),
           volL, real_bott(volL, ToRat(params.Bottle_ml)))

SinPackaging(params, costs, indc, vnp) ==
    Rendimientos(params,
                 [costs EXCEPT !.ind_cost = indc,
                               !.total_lot = total_lot(costs.total_var, indc),
                               !.var_no_pack = vnp,
                               !.ind_no_pack =
                                   ind_no_pack(vnp, ToRat(params.Overhead_pct))],
                 real_volL(ToRat(params.Volumen_L), ToRat(params.Merma_pct)))

Totales(params, ingc, packc, auxc, labc, tvar) ==
    SinPackaging(params,
                 [ing_cost |-> ingc, pack_cost |-> packc, aux_cost |-> auxc,
                  lab_cost |-> labc, total_var |-> tvar, ind_cost |-> RZero,
                  total_lot |-> RZero, var_no_pack |-> RZero,
                  ind_no_pack |-> RZero],
                 ind_cost(tvar, ToRat(params.Overhead_pct)),
                 var_no_pack(tvar, packc))

Costos(params, ingc, packc, auxc, labc) ==
    Totales(params, ingc, packc, auxc, labc,
            total_var(ingc, packc, auxc, ToRat(params.Energia), labc,
                      ToRat(params.Flete)))

Calculos(params, ing, pack, aux) ==
    Costos(params,
           column_product_sum(ing, "Cantidad", "Costo_unitario"),
           column_product_sum(pack, "Unidades", "Costo_unitario"),
           column_product_sum(aux, "Cantidad", "Costo_unitario"),
           lab_cost(ToRat(params.Horas), ToRat(params.Costo_hora)))

----------------------------------------------------------------------------
(* One run of the script *)

\* the widgets' state at the start of a run: Fresh when every widget is built
\* anew from its initial value, else the values the session holds
Fresh == [fresh |-> TRUE]
Session(params, ing, pack, aux) ==
    [params |-> params, Ingredientes |-> ing, Packaging |-> pack,
     Auxiliares |-> aux]

NoDownload == <<>>

\* lines 202-257: the results, the snapshot behind the download button and
\* the exception that ends the run, if any
Outputs(up, init, w, keyerror, calc) ==
    [sidebar       |-> up.sidebar,
     loaded_params |-> up.loaded_params,
     loaded_tables |-> up.loaded_tables,
     initial       |-> init,
     out_params    |-> w.params,
     ing_df        |-> w.Ingredientes,
     pack_df       |-> w.Packaging,
     aux_df        |-> w.Auxiliares,
     metrics       |-> IF keyerror THEN NoMetrics ELSE calc,
     csv_df        |-> IF keyerror THEN NoDownload
                       ELSE build_save_df(w.params, w.Ingredientes,
                                          w.Packaging, w.Auxiliares),
     exc           |-> IF keyerror THEN "KeyError" ELSE "none"]

\* lines 116-196: every widget returns the value the session holds for it,
\* or its initial value when it is built anew
Widgets(up, init, w) ==
    IF MissingColumn(w.Ingredientes, w.Packaging, w.Auxiliares)
    THEN Outputs(up, init, w, TRUE, NoMetrics)
    ELSE Outputs(up, init, w, FALSE,
                 Calculos(w.params, w.Ingredientes, w.Packaging, w.Auxiliares))

Decoded(up, init, session) ==
    Widgets(up, init, IF session = Fresh THEN init ELSE session)

Uploaded(up, session) ==
    Decoded(up, Reconstruct(up.loaded_params, up.loaded_tables), session)

\* the script from line 101 to line 257 with `file` in the uploader
Script(file, session) == Uploaded(SidebarUpload(file), session)

\* the state after a run
Becomes(r) ==
    /\ sidebar' = r.sidebar
    /\ loaded_params' = r.loaded_params
    /\ loaded_tables' = r.loaded_tables
    /\ initial' = r.initial
    /\ out_params' = r.out_params
    /\ ing_df' = r.ing_df
    /\ pack_df' = r.pack_df
    /\ aux_df' = r.aux_df
    /\ metrics' = r.metrics
    /\ csv_df' = r.csv_df
    /\ exc' = r.exc

Rerun(file, session) == file_up' = file /\ Becomes(Script(file, session))

----------------------------------------------------------------------------
(* Inputs of the application: the files a user uploads and the edits made *)

\* a saved model that differs from the preset in every parameter and table
AltParams ==
    [Titulo_lote  |-> Str("IPA 50 L"),
     Volumen_L    |-> Num(50, 0),
     Bottle_ml    |-> Num(500, 0),
     Merma_pct    |-> Num(25, 1),
     Energia      |-> Num(450, 0),
     Horas        |-> Num(8, 0),
     Costo_hora   |-> Num(5000, 0),
     Flete        |-> Num(1500, 0),
     Overhead_pct |-> Num(125, 1)]

AltIngredients ==
    DataFrame(IngColumns,
      << LineItem(Str("Malta Pale"), Num(105, 1), "kg", Num(600, 0)),
         LineItem(Str("Lupulo Citra"), Num(150, 0), "g", Num(45, 0)) >>)

AltPackaging ==
    DataFrame(PackColumns,
      << PackagingItem(Str("Lata 500 ml"), Num(97, 0), Num(120, 0)) >>)

AltAux ==
    DataFrame(IngColumns,
      << LineItem(Str("Sanitizante"), Num(50, 0), "ml", Num(3, 0)) >>)

\* the rows of the CSV the download button gives for that model
AltSnapshot ==
    to_csv(build_save_df(AltParams, AltIngredients, AltPackaging, AltAux)).rows

\* the rows of `rows` whose index is in S, in order
RECURSIVE Keep(_, _)
Keep(rows, S) ==
    IF rows = <<>> THEN <<>>
    ELSE LET n == Len(rows)
             front == Keep(SubSeq(rows, 1, n - 1), S)
         IN  IF n \in S THEN Append(front, rows[n]) ELSE front

\* `rows` with r put after the first k rows
InsertAt(rows, k, r) ==
    SubSeq(rows, 1, k) \o <<r>> \o SubSeq(rows, k + 1, Len(rows))

ParamIdx == 1..9
TableIdx == 10..12

\* a snapshot that lacks PARAM keys or table sections: the rows of
\* AltSnapshot with index in PS (PARAM records) or TS (table records)
PartialFile(PS, TS) == CsvFile(Keep(AltSnapshot, PS \cup TS))

\* the subsets enumerated: PARAM keys all present but at most one, or all
\* absent but at most one, with any subset of the three tables
PartialChoices ==
    {<<PS, TS>> : PS \in {P \in SUBSET ParamIdx : Cardinality(P) \in {0, 1, 8, 9}},
                 TS \in SUBSET TableIdx}

\* records a hand-edited or foreign file may hold
ExtraRecords ==
    << Record("Ingredientes", "Data", Str("[{Descripcion: Agua,")),
       Record("Packaging", "Data", Str("")),
       Record("Notas", "Data", to_json(AltAux)),
       Record("Auxiliares", "Data", to_json(DataFrame(IngColumns, <<>>))),
       Record("PARAM", "Volumen_L", NumStr(30, 0)),
       Record("PARAM", "Titulo_lote", Str("")),
       Record("PARAM", "Nota", Str("receta de prueba")) >>

\* the rows S of AltSnapshot with ExtraRecords[j] put after the first k
EditedFile(S, k, j) == CsvFile(InsertAt(Keep(AltSnapshot, S), k, ExtraRecords[j]))

EditedChoices ==
    {<<c, j>> : c \in {<<1..12, 0>>, <<1..12, 9>>, <<1..12, 12>>,
                       <<{2, 10, 11}, 0>>, <<{2, 10, 11}, 3>>},
               j \in 1..Len(ExtraRecords)}

\* the edits a user makes, within the widgets' ranges
ParamEdits == { <<"Volumen_L", Num(25, 0)>> }

TableEdits == { <<"Packaging", DataFrame(PackColumns, <<>>)>> }

----------------------------------------------------------------------------
(* The application: every user interaction reruns the script *)

\* a file is chosen in the uploader: every widget is built from the values
\* decoded from it
Upload(f) == f # NoFile /\ Rerun(f, Fresh)

\* the file chosen is a snapshot that lacks PARAM keys or table sections
UploadPartial(c) ==
    /\ file_up # PartialFile(c[1], c[2])
    /\ Upload(PartialFile(c[1], c[2]))

\* the file chosen is a hand-edited or foreign snapshot
UploadEdited(c) ==
    /\ file_up # EditedFile(c[1][1], c[1][2], c[2])
    /\ Upload(EditedFile(c[1][1], c[1][2], c[2]))

\* the file chosen is one that pd.read_csv cannot read
UploadUnreadable ==
    /\ file_up # BadCsv
    /\ Upload(BadCsv)

\* the file is removed from the uploader
RemoveFile == file_up # NoFile /\ Rerun(NoFile, Fresh)

\* a parameter widget is changed; the other widgets keep their values
EditParam(k, v) ==
    /\ exc = "none"
    /\ out_params[k] # v
    /\ Rerun(file_up, Session([out_params EXCEPT ![k] = v],
                              ing_df, pack_df, aux_df))

\* a data_editor table is changed
EditTable(name, df) ==
    /\ exc = "none"
    /\ Rerun(file_up,
             Session(out_params,
                     IF name = "Ingredientes" THEN df ELSE ing_df,
                     IF name = "Packaging" THEN df ELSE pack_df,
                     IF name = "Auxiliares" THEN df ELSE aux_df))

\* the first run: nothing uploaded
Init ==
    LET r == Script(NoFile, Fresh)
    IN  /\ file_up = NoFile
        /\ sidebar = r.sidebar
        /\ loaded_params = r.loaded_params
        /\ loaded_tables = r.loaded_tables
        /\ initial = r.initial
        /\ out_params = r.out_params
        /\ ing_df = r.ing_df
        /\ pack_df = r.pack_df
        /\ aux_df = r.aux_df
        /\ metrics = r.metrics
        /\ csv_df = r.csv_df
        /\ exc = r.exc

Next ==
    \/ \E c \in PartialChoices : UploadPartial(c)
    \/ \E c \in EditedChoices : UploadEdited(c)
    \/ UploadUnreadable
    \/ RemoveFile
    \/ \E e \in ParamEdits : EditParam(e[1], e[2])
    \/ \E e \in TableEdits : EditTable(e[1], e[2])

Spec == Init /\ [][Next]_vars

----------------------------------------------------------------------------
(* The snapshot codec on its own: a model is encoded by build_save_df and *)
(* decoded by load_save_df and the reconstruction of lines 116-196        *)

\* the most rows a table of the bounded models has
MaxRows == 2

\* the tables with lo..hi rows drawn from `rows`
Tables(cols, rows, lo, hi) ==
    {DataFrame(cols, r) : r \in UNION {[1..n -> rows] : n \in lo..hi}}

NotDecoded == [decoded |-> FALSE]

\* cells: text that spells a number, a quantity with eleven decimals
CodecParams ==
    { InitialParams(EmptyDict), AltParams,
      [AltParams EXCEPT !.Titulo_lote = Str("")] }
CodecIngredients ==
    Tables(IngColumns,
           {LineItem(d, q, "kg", Num(550, 0)) :
               d \in {Str("Agua"), NumStr(7, 0)},
               q \in {Num(45, 1), Num(1, 11)}},
           0, MaxRows)
CodecPackaging ==
    Tables(PackColumns,
           {PackagingItem(Str("Chapa"), Num(61, 0), c) :
               c \in {Num(15, 0), Num(155, 1)}},
           0, MaxRows)
CodecAux ==
    Tables(IngColumns, {LineItem(Str(""), Num(0, 0), "g", Num(80, 0))},
           0, MaxRows)

Idle ==
    /\ file_up = NoFile
    /\ sidebar = "none"
    /\ loaded_params = EmptyDict
    /\ loaded_tables = EmptyDict
    /\ initial = NotDecoded
    /\ metrics = NoMetrics
    /\ csv_df = NoDownload
    /\ exc = "none"

CodecInit ==
    /\ out_params \in CodecParams
    /\ ing_df \in CodecIngredients
    /\ pack_df \in CodecPackaging
    /\ aux_df \in CodecAux
    /\ Idle

\* line 250
Encode ==
    /\ csv_df = NoDownload
    /\ csv_df' = build_save_df(out_params, ing_df, pack_df, aux_df)
    /\ UNCHANGED <<file_up, sidebar, loaded_params, loaded_tables, initial,
                   out_params, ing_df, pack_df, aux_df, metrics, exc>>

DecodedAs(got) ==
    IF got.raised
    THEN /\ exc' = "Exception"
         /\ UNCHANGED <<loaded_params, loaded_tables, initial>>
    ELSE /\ loaded_params' = got.params
         /\ loaded_tables' = got.tables
         /\ initial' = Reconstruct(got.params, got.tables)
         /\ exc' = "none"

\* line 107 and lines 116-196 on the DataFrame that Encode built
Decode ==
    /\ csv_df # NoDownload
    /\ initial = NotDecoded
    /\ exc = "none"
    /\ DecodedAs(load_save_df(csv_df))
    /\ UNCHANGED <<file_up, sidebar, out_params, ing_df, pack_df, aux_df,
                   metrics, csv_df>>

CodecNext == Encode \/ Decode

SpecCodec == CodecInit /\ [][CodecNext]_vars

----------------------------------------------------------------------------
(* The calculations on their own, on inputs no widget range restricts *)

CalcParams ==
    { [AltParams EXCEPT !.Volumen_L = v, !.Bottle_ml = b, !.Merma_pct = m,
                        !.Horas = h, !.Overhead_pct = o] :
        v \in {Num(0, 0), Num(20, 0)},
        b \in {Num(0, 0), Num(330, 0)},
        m \in {Num(8, 0), Num(100, 0)},
        h \in {Num(0, 0), Num(6, 0)},
        o \in {Num(0, 0), Num(125, 1)} }
CalcIngredients ==
    Tables(IngColumns,
           { LineItem(Str("Malta Pilsen"), Num(45, 1), "kg", Num(550, 0)),
             LineItem(Str("Levadura ale"), Num(11, 3), "kg", Num(12500, 0)) },
           0, MaxRows)
CalcPackaging(lo) ==
    Tables(PackColumns,
           { PackagingItem(Str("Botella 330 ml"), Num(61, 0), Num(80, 0)),
             PackagingItem(Str("Carton 6 pack"), Num(11, 0), Num(300, 0)) },
           lo, MaxRows)
CalcAux ==
    Tables(IngColumns, {LineItem(Str("CO2"), Num(6, 1), "kg", Num(700, 0))},
           0, 1)

\* the inputs: the packaging table starts with at least one row
CalcInit ==
    /\ out_params \in CalcParams
    /\ ing_df \in CalcIngredients
    /\ pack_df \in CalcPackaging(1)
    /\ aux_df \in CalcAux
    /\ Idle

\* the run ends with ZeroDivisionError when a quotient by zero is taken
Computed(calc) ==
    IF ZeroDivision \in {calc.real_bott, calc.cost_bot, calc.cost_L}
    THEN metrics' = NoMetrics /\ exc' = "ZeroDivisionError"
    ELSE metrics' = calc /\ exc' = "none"

\* lines 202-227 on the inputs
Compute ==
    /\ metrics = NoMetrics
    /\ exc = "none"
    /\ Computed(Calculos(out_params, ing_df, pack_df, aux_df))
    /\ UNCHANGED <<file_up, sidebar, loaded_params, loaded_tables, initial,
                   out_params, ing_df, pack_df, aux_df, csv_df>>

\* the packaging rows are replaced (or all removed) and the results recomputed
Repack(pack) ==
    /\ metrics # NoMetrics
    /\ pack # pack_df
    /\ pack_df' = pack
    /\ Computed(Calculos(out_params, ing_df, pack, aux_df))
    /\ UNCHANGED <<file_up, sidebar, loaded_params, loaded_tables, initial,
                   out_params, ing_df, aux_df, csv_df>>

\* the packaging tables the editor can be left with
RepackChoices == CalcPackaging(0)

CalcNext == Compute \/ \E pack \in RepackChoices : Repack(pack)

SpecCalc == CalcInit /\ [][CalcNext]_vars

----------------------------------------------------------------------------
(* Properties of the calculations (checked under SpecCalc) *)

Bottle == ToRat(out_params.Bottle_ml)
Pct == ToRat(out_params.Overhead_pct)

\* C5 as stated: whenever containerMilliliters = 0 or effectiveVolumeLiters
\* = 0, containerCount, costPerContainer and costPerLiter are all 0.
C5_ZeroVolumeAllZero ==
    (metrics.computed /\ (Bottle = RZero \/ metrics.real_volL = RZero))
    => /\ metrics.real_bott = RZero
       /\ metrics.cost_bot = RZero
       /\ metrics.cost_L = RZero

\* C5 (amended): the computation never raises; whenever
\* containerMilliliters = 0 or effectiveVolumeLiters = 0, containerCount = 0
\* and costPerContainer = 0; whenever effectiveVolumeLiters = 0,
\* costPerLiter = 0; with effectiveVolumeLiters # 0 costPerLiter is
\* productionCostExcludingPackaging / effectiveVolumeLiters, also when
\* containerMilliliters = 0.
C5_ZeroVolumeSafe ==
    /\ exc = "none"
    /\ metrics.computed =>
         /\ (Bottle = RZero \/ metrics.real_volL = RZero)
              => (metrics.real_bott = RZero /\ metrics.cost_bot = RZero)
         /\ metrics.real_volL = RZero => metrics.cost_L = RZero
         /\ metrics.real_volL # RZero
              => metrics.cost_L =
                   RDiv(metrics.prod_cost_no_pack, metrics.real_volL)

\* a zero container size with a non-zero effective volume and cost per liter
C5_Witness ==
    /\ metrics.computed
    /\ Bottle = RZero
    /\ metrics.real_volL # RZero
    /\ metrics.cost_L # RZero

\* the sum over the rows of quantity times unit cost, from the last row back
RECURSIVE LineCosts(_, _, _)
LineCosts(df, qty, n) ==
    IF n = 0 THEN RZero
    ELSE RAdd(LineCosts(df, qty, n - 1),
              RMul(ToRat(df.rows[n][qty]), ToRat(df.rows[n].Costo_unitario)))

SixComponents ==
    RAdd(LineCosts(ing_df, "Cantidad", Len(ing_df.rows)),
      RAdd(LineCosts(pack_df, "Unidades", Len(pack_df.rows)),
        RAdd(LineCosts(aux_df, "Cantidad", Len(aux_df.rows)),
          RAdd(ToRat(out_params.Energia),
            RAdd(RMul(ToRat(out_params.Horas), ToRat(out_params.Costo_hora)),
                 ToRat(out_params.Flete))))))

\* C6: totalBatchCost = variableCost + overheadCost, overheadCost =
\* variableCost * overheadPercent / 100, and variableCost is the sum of the
\* six components (ingredients, packaging, auxiliaries, energy, labor =
\* hours * rate, freight), each table cost being the sum over its rows of
\* quantity (or units) times unit cost.
C6_Additivity ==
    metrics.computed =>
      /\ metrics.ing_cost = LineCosts(ing_df, "Cantidad", Len(ing_df.rows))
      /\ metrics.pack_cost = LineCosts(pack_df, "Unidades", Len(pack_df.rows))
      /\ metrics.aux_cost = LineCosts(aux_df, "Cantidad", Len(aux_df.rows))
      /\ metrics.lab_cost =
           RMul(ToRat(out_params.Horas), ToRat(out_params.Costo_hora))
      /\ metrics.total_var = SixComponents
      /\ metrics.ind_cost = RDiv(RMul(SixComponents, Pct), RInt(100))
      /\ metrics.total_lot = RAdd(metrics.total_var, metrics.ind_cost)

\* every component present: two ingredient rows, labor and overhead non-zero
C6_Witness ==
    /\ metrics.computed
    /\ Len(ing_df.rows) = 2 /\ Len(pack_df.rows) = 2 /\ Len(aux_df.rows) = 1
    /\ metrics.lab_cost # RZero
    /\ metrics.ind_cost # RZero

\* (variableCost - packagingCost) * (1 + overheadPercent/100)
\*   / effectiveVolumeLiters, from the inputs other than the packaging rows
PerLiterWithoutPackaging ==
    RDiv(RMul(RAdd(LineCosts(ing_df, "Cantidad", Len(ing_df.rows)),
                RAdd(LineCosts(aux_df, "Cantidad", Len(aux_df.rows)),
                  RAdd(ToRat(out_params.Energia),
                    RAdd(RMul(ToRat(out_params.Horas),
                              ToRat(out_params.Costo_hora)),
                         ToRat(out_params.Flete))))),
              RAdd(RInt(1), RDiv(Pct, RInt(100)))),
         metrics.real_volL)

PerLiterExcludesPackaging ==
    metrics.real_volL # RZero => metrics.cost_L = PerLiterWithoutPackaging

\* C7: two models that differ only in their packaging rows (one of them
\* possibly without packaging rows) have the same costPerLiter, which is
\* (variableCost - packagingCost) * (1 + overheadPercent/100)
\* / effectiveVolumeLiters.
C7_PackagingExclusion ==
    [][(/\ metrics.computed /\ metrics'.computed
        /\ out_params' = out_params /\ ing_df' = ing_df /\ aux_df' = aux_df)
       => /\ metrics'.cost_L = metrics.cost_L
          /\ PerLiterExcludesPackaging]_vars

\* all packaging rows removed (the inputs start with at least one row), with
\* a non-zero cost per liter
C7_Witness ==
    /\ metrics.computed
    /\ Len(pack_df.rows) = 0
    /\ metrics.cost_L # RZero

----------------------------------------------------------------------------
(* Properties of the snapshot codec (checked under SpecCodec) *)

ParamKeySet == {ParamKeys[i] : i \in 1..Len(ParamKeys)}

\* C1: decoding the snapshot that encodes a model (build_save_df, then
\* load_save_df and the reconstruction of parameters and tables) gives the
\* same parameter values and the same table rows: same count, same field
\* values, same order.
C1_RoundTrip ==
    initial # NotDecoded =>
      /\ initial.params = out_params
      /\ initial.Ingredientes.rows = ing_df.rows
      /\ initial.Packaging.rows = pack_df.rows
      /\ initial.Auxiliares.rows = aux_df.rows

RecordsOf(section, field) ==
    {i \in 1..Len(csv_df) :
        csv_df[i].Section = section /\ csv_df[i].Field = field}

WholeTable(value, df) ==
    /\ value.t = "json"
    /\ Len(value.doc) = Len(df.rows)
    /\ \A r \in 1..Len(df.rows) : DOMAIN value.doc[r] = df.columns

\* C9: the encoded snapshot holds one PARAM record per parameter key, with
\* Field the key and Value the parameter's value, and exactly one record per
\* table, with Section the table's name, Field "Data" and Value the whole
\* table as one payload; it holds no other record: 12 records whatever the
\* number of table rows.
C9_EncodeShape ==
    csv_df # NoDownload =>
      /\ Len(csv_df) = 12
      /\ \A k \in ParamKeySet :
           /\ Cardinality(RecordsOf("PARAM", k)) = 1
           /\ \A i \in RecordsOf("PARAM", k) : csv_df[i].Value = out_params[k]
      /\ \A name \in TableNames :
           /\ Cardinality({i \in 1..Len(csv_df) : csv_df[i].Section = name}) = 1
           /\ Cardinality(RecordsOf(name, "Data")) = 1
      /\ \A i \in RecordsOf("Ingredientes", "Data") :
           WholeTable(csv_df[i].Value, ing_df)
      /\ \A i \in RecordsOf("Packaging", "Data") :
           WholeTable(csv_df[i].Value, pack_df)
      /\ \A i \in RecordsOf("Auxiliares", "Data") :
           WholeTable(csv_df[i].Value, aux_df)
      /\ \A i \in 1..Len(csv_df) :
           \/ csv_df[i].Section = "PARAM" /\ csv_df[i].Field \in ParamKeySet
           \/ csv_df[i].Section \in TableNames

\* a snapshot of tables with two, one and no rows
C9_Witness ==
    /\ csv_df # NoDownload
    /\ Len(ing_df.rows) = 2
    /\ Len(pack_df.rows) = 1
    /\ Len(aux_df.rows) = 0

----------------------------------------------------------------------------
(* Properties of the application (checked under Spec) *)

Rows == IF file_up.kind = "csv" THEN file_up.rows ELSE <<>>

IsParam(i) == Rows[i].Section = "PARAM"
\* a non-PARAM record whose Value does not parse as a row sequence
Malformed(i) == ~IsParam(i) /\ Rows[i].Value.t # "json"

\* the documented defaults
DocumentedParams ==
    [Titulo_lote  |-> Str("Lote 20 L"),
     Volumen_L    |-> Num(20, 0),
     Bottle_ml    |-> Num(330, 0),
     Merma_pct    |-> Num(8, 0),
     Energia      |-> Num(300, 0),
     Horas        |-> Num(6, 0),
     Costo_hora   |-> Num(4000, 0),
     Flete        |-> Num(1000, 0),
     Overhead_pct |-> Num(10, 0)]

DefaultTable(name) ==
    CASE name = "Ingredientes" -> default_ingredients
      [] name = "Packaging"    -> default_packaging
      [] name = "Auxiliares"   -> default_aux

\* C2: when the nested Value of any non-PARAM record fails to parse, the
\* decode aborts with an error shown to the user and nothing of the snapshot
\* is applied: no parameter and no table, not even from the records before
\* the malformed one.
C2_AllOrNothing ==
    (\E i \in 1..Len(Rows) : Malformed(i)) =>
      /\ sidebar = "error"
      /\ loaded_params = EmptyDict
      /\ loaded_tables = EmptyDict
      /\ initial.params = DocumentedParams
      /\ \A name \in TableNames : initial[name] = DefaultTable(name)

\* a malformed record after PARAM records and a table record that parse
C2_Witness ==
    /\ sidebar = "error"
    /\ \E i, j, k \in 1..Len(Rows) :
         /\ i < k /\ j < k
         /\ IsParam(i)
         /\ ~IsParam(j) /\ ~Malformed(j)
         /\ Malformed(k)

\* C3: after a snapshot was loaded, loading a snapshot whose Ingredientes
\* Value is not valid row-sequence syntax reports an error and leaves the
\* model in effect as it was.
C3_FailedLoadKeepsModel ==
    [][(/\ sidebar = "success"
        /\ file_up' # file_up
        /\ file_up'.kind = "csv"
        /\ \E i \in 1..Len(file_up'.rows) :
              /\ file_up'.rows[i].Section = "Ingredientes"
              /\ file_up'.rows[i].Value.t # "json")
       => /\ sidebar' = "error"
          /\ out_params' = out_params
          /\ ing_df' = ing_df
          /\ pack_df' = pack_df
          /\ aux_df' = aux_df]_vars

\* the last record of the file with this Section and Field, if any
Last(section, field) ==
    {i \in 1..Len(Rows) :
        /\ Rows[i].Section = section /\ Rows[i].Field = field
        /\ \A j \in (i + 1)..Len(Rows) :
              ~(Rows[j].Section = section /\ Rows[j].Field = field)}
LastOfSection(section) ==
    {i \in 1..Len(Rows) :
        /\ Rows[i].Section = section
        /\ \A j \in (i + 1)..Len(Rows) : Rows[j].Section # section}

\* the value a PARAM cell holds: its text for the title, the number its text
\* spells for the other keys
CellValue(k, cell) == IF k = "Titulo_lote" THEN cell ELSE Num(cell.m, cell.e)

Unedited ==
    /\ out_params = initial.params
    /\ ing_df = initial.Ingredientes
    /\ pack_df = initial.Packaging
    /\ aux_df = initial.Auxiliares

\* C8: with no snapshot loaded and no edits the results are ingredientCost
\* 3708.5, packagingCost 10315, auxiliaryCost 820, laborCost 24000,
\* variableCost 40143.5, overheadCost 4014.35, totalBatchCost 44157.85,
\* effectiveVolumeLiters 18.4, containerCount 18400/330,
\* variableCostExcludingPackaging 29828.5, overheadExcludingPackaging
\* 2982.85, productionCostExcludingPackaging 32811.35, as exact rationals.
C8_DefaultScenario ==
    (file_up = NoFile /\ Unedited) =>
      /\ metrics.computed
      /\ metrics.ing_cost = Rat(37085, 10)
      /\ metrics.pack_cost = Rat(10315, 1)
      /\ metrics.aux_cost = Rat(820, 1)
      /\ metrics.lab_cost = Rat(24000, 1)
      /\ metrics.total_var = Rat(401435, 10)
      /\ metrics.ind_cost = Rat(401435, 100)
      /\ metrics.total_lot = Rat(4415785, 100)
      /\ metrics.real_volL = Rat(184, 10)
      /\ metrics.real_bott = Rat(18400, 330)
      /\ metrics.var_no_pack = Rat(298285, 10)
      /\ metrics.ind_no_pack = Rat(298285, 100)
      /\ metrics.prod_cost_no_pack = Rat(3281135, 100)

C8_Witness ==
    /\ file_up = NoFile
    /\ Unedited
    /\ exc = "none"
    /\ Len(ing_df.rows) = 10 /\ Len(pack_df.rows) = 4 /\ Len(aux_df.rows) = 2

\* a cell as pd.read_csv hands it over
AsRead(cell) == IF cell = Str("") THEN NaN ELSE cell

\* C10: the records are processed in file order; a PARAM record sets
\* params[Field] to the Value as read, without numeric coercion; any other
\* record, whatever its Section and Field, has its Value parsed as a row
\* sequence and assigned to tables[Section]; no record is skipped, a PARAM
\* record creates no table and another record no parameter.
C10_DecodeDispatch ==
    sidebar = "success" =>
      /\ DOMAIN loaded_params = {Rows[i].Field : i \in {j \in 1..Len(Rows) : IsParam(j)}}
      /\ DOMAIN loaded_tables = {Rows[i].Section : i \in {j \in 1..Len(Rows) : ~IsParam(j)}}
      /\ \A k \in DOMAIN loaded_params : \A i \in Last("PARAM", k) :
           loaded_params[k] = AsRead(Rows[i].Value)
      /\ \A name \in DOMAIN loaded_tables : \A i \in LastOfSection(name) :
           /\ Len(loaded_tables[name].rows) = Len(Rows[i].Value.doc)
           /\ \A r \in 1..Len(Rows[i].Value.doc) :
                loaded_tables[name].rows[r] = Rows[i].Value.doc[r]

\* a file with a section that is no table name, read after a numeric PARAM
C10_Witness ==
    /\ sidebar = "success"
    /\ "Notas" \in DOMAIN loaded_tables
    /\ "Volumen_L" \in DOMAIN loaded_params
    /\ loaded_params["Volumen_L"].t = "numstr"

====
